---- MODULE Spec2Model ----
(***************************************************************************)
(* A model of src/wrapper.rs of cargo-llvm-cov: the RUSTC_WRAPPER entry    *)
(* point.  One behaviour is one run of the wrapper process:                *)
(*   decode argv -> should_instrument -> debug line -> add_coverage_flags  *)
(*   -> spawn rustc -> wait -> map the status to the exit code.            *)
(* Command-line tokens and environment values are OS strings, modelled as  *)
(* sequences of bytes.  An Option<T> is a sequence of length 0 (None) or   *)
(* 1 (Some(v)).                                                            *)
(***************************************************************************)
EXTENDS Integers, Sequences, FiniteSets, TLC

VARIABLES
    argv,         \* the process's own command line (env::args_os)
    env,          \* the process environment, one field per variable read
    unix,         \* the build configuration: cfg(unix) or cfg(not(unix))
    pc,           \* position in run_wrapper / try_run_wrapper
    rustc,        \* Option: the rustc path (local `rustc`)
    rustc_args,   \* local `rustc_args`
    should_instr, \* Option: local `should_instrument`
    stderr,       \* the lines the wrapper itself wrote to the error stream
    child,        \* the rustc subprocess: "none", "running" or "exited"
    child_argv,   \* Option: the command line the subprocess was started with
    spawned,      \* how many subprocesses were started
    status,       \* Option: the subprocess's exit status
    result,       \* try_run_wrapper's result: "pending", "Ok" or the error
    exit_code     \* Option: the ExitCode run_wrapper returned

vars == <<argv, env, unix, pc, rustc, rustc_args, should_instr, stderr,
          child, child_argv, spawned, status, result, exit_code>>

----------------------------------------------------------------------------
(* Bounds of the model *)

\* longest list of rustc arguments after the rustc path
MaxArgs == 2
\* longest CARGO_LLVM_COV_FLAGS value in a whole run of the wrapper
MaxFlagLen == 2
\* longest CARGO_LLVM_COV_FLAGS value in the runs of SpecInject
MaxTokLen == 4

----------------------------------------------------------------------------
(* Values *)

None == <<>>
Some(v) == <<v>>
Opt(S) == {None} \cup {Some(v) : v \in S}

SeqsUpTo(S, n) == UNION {[1..k -> S] : k \in 0..n}

\* bytes a flag string is made of: tab, space, 'A', and 0xFF (never valid UTF-8)
Bytes == {9, 32, 65, 255}

\* "1"
One == <<49>>
\* "foo"
Names == {<<102, 111, 111>>}
\* target triples, "x" and "a". should_instrument only compares the two
\* variables for equality, so one value of CARGO_LLVM_COV_TARGET_ONLY and two
\* of TARGET give every case: either absent, both equal, both different.
Triples == {<<120>>, <<97>>}
OnlyTriples == {<<120>>}
\* argv[0] and the rustc path
Self == <<119>>
RustcPath == <<114>>
\* the i-th rustc argument: "A B" (it holds a space), then "-B", "-C", ...
\* The wrapper never looks inside a rustc argument, so pairwise distinct
\* arguments stand for all argument lists of a length.
Arg(i) == IF i = 1 THEN <<65, 32, 66>> ELSE <<45, 64 + i>>
ArgLists == {[i \in 1..k |-> Arg(i)] : k \in 0..MaxArgs}

\* what the subprocess may exit with
ExitStatuses == {0, 1, 137}

Argvs ==
    {<<>>, <<Self>>} \cup {<<Self, RustcPath>> \o a : a \in ArgLists}

Envs(flaglen) ==
    [CARGO_LLVM_COV : Opt({One}),
     CARGO_CRATE_NAME : Opt(Names),
     CARGO_PKG_NAME : Opt(Names),
     CARGO_LLVM_COV_TARGET_ONLY : Opt(OnlyTriples),
     TARGET : Opt(Triples),
     CARGO_LLVM_COV_DEP_COVERAGE : Opt({One}),
     CARGO_PRIMARY_PACKAGE : Opt({One}),
     CARGO_LLVM_COV_WRAPPER_DEBUG : Opt({One}),
     CARGO_LLVM_COV_FLAGS : Opt(SeqsUpTo(Bytes, flaglen))]

----------------------------------------------------------------------------
(* Pure functions *)

is_some(o) == o # None
is_none(o) == o = None

\* slice::split / str::split: the chunks between separators, empty ones included
RECURSIVE split(_, _)
split(s, sep) ==
    IF \A i \in 1..Len(s) : s[i] \notin sep
    THEN <<s>>
    ELSE LET i == CHOOSE k \in 1..Len(s) :
                      s[k] \in sep /\ \A j \in 1..(k - 1) : s[j] \notin sep
         IN <<SubSeq(s, 1, i - 1)>> \o split(SubSeq(s, i + 1, Len(s)), sep)

non_empty(chunks) == SelectSeq(chunks, LAMBDA c : c # <<>>)

\* OsStr::to_str: Some(text) when the bytes are valid UTF-8. Of the bytes of
\* the model only 0xFF is not ASCII, and it is valid nowhere in UTF-8.
to_str(s) == IF \A i \in 1..Len(s) : s[i] < 128 THEN Some(s) ELSE None

\* char::is_whitespace on the ASCII range
White_Space == {9, 10, 11, 12, 13, 32}

\* str::split_whitespace
split_whitespace(s) == non_empty(split(s, White_Space))

\* the cfg(unix) block: split the bytes on b' ', keep the non-empty chunks
unix_flags(cov_flags) == Some(non_empty(split(cov_flags, {32})))

\* the cfg(not(unix)) block: None when to_str fails
non_unix_flags(cov_flags) ==
    IF is_none(to_str(cov_flags))
    THEN None
    ELSE Some(split_whitespace(to_str(cov_flags)[1]))

should_instrument_dep_gate(e) ==
    /\ is_some(e.CARGO_LLVM_COV)
    /\ ~(is_none(e.CARGO_CRATE_NAME) /\ is_none(e.CARGO_PKG_NAME))
    /\ ~(/\ is_some(e.CARGO_LLVM_COV_TARGET_ONLY)
         /\ is_some(e.TARGET)
         /\ e.TARGET[1] # e.CARGO_LLVM_COV_TARGET_ONLY[1])
    /\ (is_some(e.CARGO_LLVM_COV_DEP_COVERAGE) \/ is_some(e.CARGO_PRIMARY_PACKAGE))

should_instrument_no_crate_check(e) ==
    /\ is_some(e.CARGO_LLVM_COV)
    /\ ~(/\ is_some(e.CARGO_LLVM_COV_TARGET_ONLY)
         /\ is_some(e.TARGET)
         /\ e.TARGET[1] # e.CARGO_LLVM_COV_TARGET_ONLY[1])

should_instrument_both_names(e) ==
    /\ is_some(e.CARGO_LLVM_COV)
    /\ ~(is_none(e.CARGO_CRATE_NAME) \/ is_none(e.CARGO_PKG_NAME))
    /\ ~(/\ is_some(e.CARGO_LLVM_COV_TARGET_ONLY)
         /\ is_some(e.TARGET)
         /\ e.TARGET[1] # e.CARGO_LLVM_COV_TARGET_ONLY[1])

\* fn should_instrument
should_instrument(e) ==
    IF is_none(e.CARGO_LLVM_COV) THEN FALSE
    ELSE IF is_none(e.CARGO_CRATE_NAME) /\ is_none(e.CARGO_PKG_NAME) THEN FALSE
    ELSE IF /\ is_some(e.CARGO_LLVM_COV_TARGET_ONLY)
            /\ is_some(e.TARGET)
            /\ e.TARGET[1] # e.CARGO_LLVM_COV_TARGET_ONLY[1] THEN FALSE
    ELSE TRUE

add_coverage_flags_append(e, args, isunix) ==
    IF is_none(e.CARGO_LLVM_COV_FLAGS)
    THEN [ok |-> TRUE, args |-> args]
    ELSE LET flags == IF isunix THEN unix_flags(e.CARGO_LLVM_COV_FLAGS[1])
                      ELSE non_unix_flags(e.CARGO_LLVM_COV_FLAGS[1])
         IN IF is_none(flags)
            THEN [ok |-> FALSE, args |-> args]
            ELSE [ok |-> TRUE, args |-> args \o flags[1]]

\* fn add_coverage_flags: the result and the argument list it leaves
add_coverage_flags(e, args, isunix) ==
    IF is_none(e.CARGO_LLVM_COV_FLAGS)
    THEN [ok |-> TRUE, args |-> args]
    ELSE LET flags == IF isunix THEN unix_flags(e.CARGO_LLVM_COV_FLAGS[1])
                      ELSE non_unix_flags(e.CARGO_LLVM_COV_FLAGS[1])
         IN IF is_none(flags)
            THEN [ok |-> FALSE, args |-> args]
            ELSE [ok |-> TRUE, args |-> flags[1] \o args]

\* ExitCode::SUCCESS and ExitCode::FAILURE
EXIT_SUCCESS == 0
EXIT_FAILURE == 1

----------------------------------------------------------------------------
(* One run of the wrapper *)

Init ==
    /\ argv \in Argvs
    /\ env \in Envs(MaxFlagLen)
    /\ unix \in BOOLEAN
    /\ pc = "start"
    /\ rustc = None
    /\ rustc_args = <<>>
    /\ should_instr = None
    /\ stderr = <<>>
    /\ child = "none"
    /\ child_argv = None
    /\ spawned = 0
    /\ status = None
    /\ result = "pending"
    /\ exit_code = None

DecodeDefaultRustc ==
    /\ pc = "start"
    /\ LET args == IF argv = <<>> THEN <<>> ELSE Tail(argv)
       IN /\ rustc' = Some(IF args = <<>> THEN RustcPath ELSE Head(args))
          /\ rustc_args' = IF args = <<>> THEN <<>> ELSE Tail(args)
          /\ pc' = "gate"
    /\ UNCHANGED <<argv, env, unix, should_instr, stderr, child, child_argv,
                   spawned, status, result, exit_code>>

\* args.next() twice, then args.collect()
Decode ==
    /\ pc = "start"
    /\ LET args == IF argv = <<>> THEN <<>> ELSE Tail(argv)
       IN IF args = <<>>
          THEN /\ result' = "rustc wrapper called without rustc path"
               /\ pc' = "returned"
               /\ UNCHANGED <<rustc, rustc_args>>
          ELSE /\ rustc' = Some(Head(args))
               /\ rustc_args' = Tail(args)
               /\ pc' = "gate"
               /\ UNCHANGED result
    /\ UNCHANGED <<argv, env, unix, should_instr, stderr, child, child_argv,
                   spawned, status, exit_code>>

\* let should_instrument = should_instrument();
Gate ==
    /\ pc = "gate"
    /\ should_instr' = Some(should_instrument(env))
    /\ pc' = "debug"
    /\ UNCHANGED <<argv, env, unix, rustc, rustc_args, stderr, child, child_argv,
                   spawned, status, result, exit_code>>

DebugLine ==
    [tag |-> "debug",
     crate |-> env.CARGO_CRATE_NAME[1],
     pkg |-> env.CARGO_PKG_NAME[1],
     primary |-> is_some(env.CARGO_PRIMARY_PACKAGE),
     instrument |-> should_instr[1]]

DebugLogAlways ==
    /\ pc = "debug"
    /\ stderr' = IF is_some(env.CARGO_LLVM_COV_WRAPPER_DEBUG)
                 THEN Append(stderr, [tag |-> "debug", instrument |-> should_instr[1]])
                 ELSE stderr
    /\ pc' = "inject"
    /\ UNCHANGED <<argv, env, unix, rustc, rustc_args, should_instr, child,
                   child_argv, spawned, status, result, exit_code>>

\* the debug block
DebugLog ==
    /\ pc = "debug"
    /\ stderr' = IF /\ is_some(env.CARGO_LLVM_COV_WRAPPER_DEBUG)
                    /\ is_some(env.CARGO_CRATE_NAME)
                    /\ is_some(env.CARGO_PKG_NAME)
                 THEN Append(stderr, DebugLine)
                 ELSE stderr
    /\ pc' = "inject"
    /\ UNCHANGED <<argv, env, unix, rustc, rustc_args, should_instr, child,
                   child_argv, spawned, status, result, exit_code>>

InjectAlways ==
    /\ pc = "inject"
    /\ LET r == add_coverage_flags(env, rustc_args, unix)
       IN IF r.ok
          THEN /\ rustc_args' = r.args
               /\ pc' = "spawn"
               /\ UNCHANGED result
          ELSE /\ result' = "CARGO_LLVM_COV_FLAGS contains invalid UTF-8"
               /\ pc' = "returned"
               /\ UNCHANGED rustc_args
    /\ UNCHANGED <<argv, env, unix, rustc, should_instr, stderr, child,
                   child_argv, spawned, status, exit_code>>

\* if should_instrument { add_coverage_flags(&mut rustc_args)?; }
Inject ==
    /\ pc = "inject"
    /\ IF should_instr[1]
       THEN LET r == add_coverage_flags(env, rustc_args, unix)
            IN IF r.ok
               THEN /\ rustc_args' = r.args
                    /\ pc' = "spawn"
                    /\ UNCHANGED result
               ELSE /\ result' = "CARGO_LLVM_COV_FLAGS contains invalid UTF-8"
                    /\ pc' = "returned"
                    /\ UNCHANGED rustc_args
       ELSE /\ pc' = "spawn"
            /\ UNCHANGED <<rustc_args, result>>
    /\ UNCHANGED <<argv, env, unix, rustc, should_instr, stderr, child,
                   child_argv, spawned, status, exit_code>>

\* Command::new(&rustc).args(&rustc_args).status(): the OS starts the process
SpawnOk ==
    /\ pc = "spawn"
    /\ child' = "running"
    /\ child_argv' = Some(<<rustc[1]>> \o rustc_args)
    /\ spawned' = spawned + 1
    /\ pc' = "wait"
    /\ UNCHANGED <<argv, env, unix, rustc, rustc_args, should_instr, stderr,
                   status, result, exit_code>>

\* ... or it cannot: .with_context(..)? returns the error
SpawnFail ==
    /\ pc = "spawn"
    /\ result' = "failed to execute rustc"
    /\ pc' = "returned"
    /\ UNCHANGED <<argv, env, unix, rustc, rustc_args, should_instr, stderr,
                   child, child_argv, spawned, status, exit_code>>

\* .status() blocks until the subprocess terminates
ChildExit ==
    /\ pc = "wait"
    /\ child = "running"
    /\ \E st \in ExitStatuses : status' = Some(st)
    /\ child' = "exited"
    /\ pc' = "check"
    /\ UNCHANGED <<argv, env, unix, rustc, rustc_args, should_instr, stderr,
                   child_argv, spawned, result, exit_code>>

CheckStatusIgnore ==
    /\ pc = "check"
    /\ result' = "Ok"
    /\ pc' = "returned"
    /\ UNCHANGED <<argv, env, unix, rustc, rustc_args, should_instr, stderr,
                   child, child_argv, spawned, status, exit_code>>

\* if !status.success() { bail!(..) } Ok(())
CheckStatus ==
    /\ pc = "check"
    /\ result' = IF status[1] # 0 THEN "rustc exited with status" ELSE "Ok"
    /\ pc' = "returned"
    /\ UNCHANGED <<argv, env, unix, rustc, rustc_args, should_instr, stderr,
                   child, child_argv, spawned, status, exit_code>>

ErrorLine == [tag |-> "error", msg |-> result]

RunWrapperQuiet ==
    /\ pc = "returned"
    /\ exit_code' = Some(IF result = "Ok" THEN EXIT_SUCCESS ELSE EXIT_FAILURE)
    /\ pc' = "exited"
    /\ UNCHANGED <<argv, env, unix, rustc, rustc_args, should_instr, stderr, child,
                   child_argv, spawned, status, result>>

\* fn run_wrapper: match try_run_wrapper() { Ok => SUCCESS, Err => eprintln, FAILURE }
RunWrapper ==
    /\ pc = "returned"
    /\ IF result = "Ok"
       THEN /\ exit_code' = Some(EXIT_SUCCESS)
            /\ UNCHANGED stderr
       ELSE /\ stderr' = Append(stderr, ErrorLine)
            /\ exit_code' = Some(EXIT_FAILURE)
    /\ pc' = "exited"
    /\ UNCHANGED <<argv, env, unix, rustc, rustc_args, should_instr, child,
                   child_argv, spawned, status, result>>

Next ==
    \/ Decode
    \/ Gate
    \/ DebugLog
    \/ Inject
    \/ SpawnOk
    \/ SpawnFail
    \/ ChildExit
    \/ CheckStatus
    \/ RunWrapper

Spec == Init /\ [][Next]_vars

----------------------------------------------------------------------------
(* add_coverage_flags and what follows it, on longer flag strings: the runs  *)
(* of an instrumented invocation (the gate returned true, no debug marker),  *)
(* taken from the point where try_run_wrapper is about to call               *)
(* add_coverage_flags.                                                       *)

InjectEnvs ==
    {e \in [CARGO_LLVM_COV : {Some(One)},
            CARGO_CRATE_NAME : Opt(Names),
            CARGO_PKG_NAME : Opt(Names),
            CARGO_LLVM_COV_TARGET_ONLY : {None},
            TARGET : {None},
            CARGO_LLVM_COV_DEP_COVERAGE : {None},
            CARGO_PRIMARY_PACKAGE : {None},
            CARGO_LLVM_COV_WRAPPER_DEBUG : {None},
            CARGO_LLVM_COV_FLAGS : Opt(SeqsUpTo(Bytes, MaxTokLen))] :
        should_instrument(e)}

InitInject ==
    /\ argv \in {<<Self, RustcPath>> \o a : a \in ArgLists}
    /\ env \in InjectEnvs
    /\ unix \in BOOLEAN
    /\ pc = "inject"
    /\ rustc = Some(argv[2])
    /\ rustc_args = Tail(Tail(argv))
    /\ should_instr = Some(should_instrument(env))
    /\ stderr = <<>>
    /\ child = "none"
    /\ child_argv = None
    /\ spawned = 0
    /\ status = None
    /\ result = "pending"
    /\ exit_code = None

NextInject ==
    \/ Inject
    \/ SpawnOk
    \/ SpawnFail
    \/ ChildExit
    \/ CheckStatus
    \/ RunWrapper

SpecInject == InitInject /\ [][NextInject]_vars

----------------------------------------------------------------------------
(* What the claims are stated in *)

\* the original argument vector: what follows the program name and the rustc path
original_args == IF Len(argv) >= 2 THEN Tail(Tail(argv)) ELSE <<>>

\* the maximal runs of non-separator bytes of s, in order
TokenStarts(s, sep) ==
    {i \in 1..Len(s) : s[i] \notin sep /\ (i = 1 \/ s[i - 1] \in sep)}
RunsOf(s, sep) ==
    [k \in 1..Cardinality(TokenStarts(s, sep)) |->
        LET i == CHOOSE x \in TokenStarts(s, sep) :
                     Cardinality({y \in TokenStarts(s, sep) : y < x}) = k - 1
            e == CHOOSE x \in i..Len(s) :
                     /\ \A j \in i..x : s[j] \notin sep
                     /\ (x = Len(s) \/ s[x + 1] \in sep)
        IN SubSeq(s, i, e)]

RECURSIVE Flatten(_)
Flatten(seqs) == IF seqs = <<>> THEN <<>> ELSE Head(seqs) \o Flatten(Tail(seqs))

Without(s, sep) == SelectSeq(s, LAMBDA b : b \notin sep)

\* s with one more space at position i (1 = in front, Len(s) + 1 = at the end)
InsertSpace(s, i) == SubSeq(s, 1, i - 1) \o <<32>> \o SubSeq(s, i, Len(s))
\* the positions where one more space only lengthens a leading, trailing or
\* interior run of spaces
PaddingPlaces(s) ==
    {i \in 1..(Len(s) + 1) :
        \/ i = 1
        \/ i = Len(s) + 1
        \/ s[i] = 32
        \/ s[i - 1] = 32}

DebugLines == SelectSeq(stderr, LAMBDA l : l.tag = "debug")
ErrorLines == SelectSeq(stderr, LAMBDA l : l.tag = "error")

\* the tokens add_coverage_flags put in front of the original arguments
InjectedTokens == SubSeq(rustc_args, 1, Len(rustc_args) - Len(original_args))

\* add_coverage_flags has been called and returned Ok
Injected ==
    /\ pc \in {"spawn", "wait", "check", "returned", "exited"}
    /\ should_instr = Some(TRUE)
    /\ result # "CARGO_LLVM_COV_FLAGS contains invalid UTF-8"

\* the environment with the two markers the gate must not read taken out
WithMarkers(d, p) ==
    [env EXCEPT !.CARGO_LLVM_COV_DEP_COVERAGE = d, !.CARGO_PRIMARY_PACKAGE = p]

----------------------------------------------------------------------------
(* The claims *)

\* C1: whenever the gate returned false, and so whenever CARGO_LLVM_COV is
\* absent, the subprocess is started with the rustc path followed by exactly
\* the original arguments, whatever CARGO_LLVM_COV_FLAGS holds.
C1_IdentityWhenInert ==
    (/\ is_some(child_argv)
     /\ (is_none(env.CARGO_LLVM_COV) \/ should_instr = Some(FALSE)))
    => /\ child_argv[1] = Tail(argv)
       /\ rustc_args = original_args
       /\ Len(child_argv[1]) = Len(argv) - 1

C1_Witness ==
    /\ is_some(child_argv)
    /\ should_instr = Some(FALSE)
    /\ is_some(env.CARGO_LLVM_COV)
    /\ env.CARGO_LLVM_COV_FLAGS = Some(<<65>>)
    /\ Len(original_args) = 2

\* C2: should_instrument returns true exactly when CARGO_LLVM_COV is present,
\* CARGO_CRATE_NAME or CARGO_PKG_NAME is present, and CARGO_LLVM_COV_TARGET_ONLY
\* and TARGET are not both present with different values.
C2_GateIff ==
    is_some(should_instr) =>
        (should_instr[1] <=>
            /\ env.CARGO_LLVM_COV # None
            /\ (env.CARGO_CRATE_NAME # None \/ env.CARGO_PKG_NAME # None)
            /\ ~(/\ env.CARGO_LLVM_COV_TARGET_ONLY # None
                 /\ env.TARGET # None
                 /\ env.CARGO_LLVM_COV_TARGET_ONLY # env.TARGET))

C2_Witness ==
    /\ should_instr = Some(FALSE)
    /\ is_some(env.CARGO_LLVM_COV)
    /\ is_some(env.CARGO_CRATE_NAME)
    /\ env.CARGO_LLVM_COV_TARGET_ONLY = Some(<<120>>)
    /\ env.TARGET = Some(<<97>>)

\* C3: in an instrumented run the subprocess gets the rustc path, then the
\* tokens of CARGO_LLVM_COV_FLAGS in their order (the maximal runs of bytes
\* between the platform's separators), then the original arguments unchanged;
\* with CARGO_LLVM_COV_FLAGS absent it gets the original arguments and
\* add_coverage_flags raises no error.
C3_FlagPrecedence ==
    /\ (is_some(child_argv) /\ should_instr = Some(TRUE)) =>
          /\ child_argv[1] =
                <<argv[2]>>
                \o (IF is_none(env.CARGO_LLVM_COV_FLAGS) THEN <<>>
                    ELSE RunsOf(env.CARGO_LLVM_COV_FLAGS[1],
                                IF unix THEN {32} ELSE White_Space))
                \o original_args
          /\ SubSeq(child_argv[1], Len(child_argv[1]) - Len(original_args) + 1,
                    Len(child_argv[1])) = original_args
    /\ (is_none(env.CARGO_LLVM_COV_FLAGS) /\ should_instr = Some(TRUE)) =>
          /\ result # "CARGO_LLVM_COV_FLAGS contains invalid UTF-8"
          /\ pc # "inject" => rustc_args = original_args

C3_Witness ==
    /\ is_some(child_argv)
    /\ should_instr = Some(TRUE)
    /\ env.CARGO_LLVM_COV_FLAGS = Some(<<65, 32, 32, 255>>)
    /\ unix
    /\ child_argv[1] = <<RustcPath, <<65>>, <<255>>, Arg(1), Arg(2)>>

\* C4: on both platforms, once add_coverage_flags has returned Ok, no injected
\* token is empty or holds a space, the tokens concatenated are the flag
\* string without its spaces, and one more space in a leading, trailing or
\* interior run of spaces gives the same tokens.
C4_Tokenization ==
    (Injected /\ is_some(env.CARGO_LLVM_COV_FLAGS)) =>
        LET s == env.CARGO_LLVM_COV_FLAGS[1]
        IN /\ \A k \in 1..Len(InjectedTokens) :
                 /\ InjectedTokens[k] # <<>>
                 /\ \A j \in 1..Len(InjectedTokens[k]) : InjectedTokens[k][j] # 32
           /\ Flatten(InjectedTokens) = Without(s, {32})
           /\ \A i \in PaddingPlaces(s) :
                 add_coverage_flags(
                     [env EXCEPT !.CARGO_LLVM_COV_FLAGS = Some(InsertSpace(s, i))],
                     original_args, unix).args = rustc_args

\* C5: the wrapper exits with 0 exactly when the subprocess was started and
\* ended with status 0, with 1 in every other run that ends, and never while
\* the subprocess is running.
C5_ExitStatus ==
    /\ pc = "exited" =>
          /\ exit_code \in {Some(0), Some(1)}
          /\ (exit_code = Some(0)) <=>
                (spawned = 1 /\ child = "exited" /\ status = Some(0))
    /\ is_some(exit_code) => (pc = "exited" /\ child # "running")
    /\ child = "running" => pc = "wait"

C5_Witness ==
    /\ pc = "exited"
    /\ status = Some(137)
    /\ exit_code = Some(1)

\* C6: with no rustc path on the command line the run goes straight to the
\* failure exit, 1, and starts no subprocess, whatever the environment; a run
\* starts at most one subprocess, and only once the rustc path is decoded.
C6_InsufficientArgs ==
    /\ Len(argv) <= 1 =>
          /\ spawned = 0
          /\ child = "none"
          /\ pc \in {"start", "returned", "exited"}
          /\ pc = "exited" => exit_code = Some(1)
    /\ spawned <= 1
    /\ child # "none" => (is_some(rustc) /\ spawned = 1 /\ rustc[1] = argv[2])

C6_Witness ==
    /\ argv = <<Self>>
    /\ pc = "exited"
    /\ exit_code = Some(1)
    /\ should_instrument(env)
    /\ spawned = 0

\* C7, as claimed: when the subprocess ran and returned a non-success status,
\* the wrapper exits with failure and has written no error line of its own.
C7_Original ==
    (pc = "exited" /\ is_some(status) /\ status # Some(0)) =>
        (exit_code = Some(1) /\ ErrorLines = <<>>)

\* C7, amended: the wrapper writes its tagged error line exactly once in every
\* run that exits with failure, the failure of the subprocess included (the
\* line then reports the exit status), and never in a run that exits with 0.
C7_ErrorLine ==
    /\ pc # "exited" => ErrorLines = <<>>
    /\ pc = "exited" =>
          /\ Len(ErrorLines) = (IF exit_code = Some(1) THEN 1 ELSE 0)
          /\ (is_some(status) /\ status # Some(0)) =>
                /\ exit_code = Some(1)
                /\ ErrorLines = <<[tag |-> "error", msg |-> "rustc exited with status"]>>

C7_Witness ==
    /\ pc = "exited"
    /\ status = Some(1)
    /\ Len(ErrorLines) = 1
    /\ Len(DebugLines) = 1

\* C8, as claimed: in a run with a rustc path, from the debug block on, there
\* is exactly one debug line if CARGO_LLVM_COV_WRAPPER_DEBUG is present, and
\* none if it is absent.
C8_Original ==
    (is_some(rustc) /\ pc \notin {"start", "gate", "debug"}) =>
        Len(DebugLines) = (IF is_some(env.CARGO_LLVM_COV_WRAPPER_DEBUG) THEN 1 ELSE 0)

\* C8, amended: the wrapper writes exactly one debug line, before it starts
\* the subprocess and reporting the gate's decision, when
\* CARGO_LLVM_COV_WRAPPER_DEBUG, CARGO_CRATE_NAME and CARGO_PKG_NAME are all
\* present, whatever CARGO_PRIMARY_PACKAGE; otherwise it writes none.
C8_DebugLine ==
    /\ pc \in {"start", "gate", "debug"} => DebugLines = <<>>
    /\ is_none(rustc) => DebugLines = <<>>
    /\ (is_some(rustc) /\ pc \notin {"start", "gate", "debug"}) =>
          IF /\ is_some(env.CARGO_LLVM_COV_WRAPPER_DEBUG)
             /\ is_some(env.CARGO_CRATE_NAME)
             /\ is_some(env.CARGO_PKG_NAME)
          THEN /\ Len(DebugLines) = 1
               /\ DebugLines[1].instrument = should_instrument(env)
               /\ stderr[1].tag = "debug"
          ELSE DebugLines = <<>>

C8_Witness ==
    /\ child = "running"
    /\ Len(DebugLines) = 1
    /\ DebugLines[1].instrument
    /\ is_none(env.CARGO_PRIMARY_PACKAGE)

\* C9, as claimed: should_instrument returns false when CARGO_LLVM_COV is
\* absent, and true when CARGO_LLVM_COV is set and CARGO_LLVM_COV_TARGET_ONLY
\* is absent.
C9_Original ==
    is_some(should_instr) =>
        /\ is_none(env.CARGO_LLVM_COV) => should_instr = Some(FALSE)
        /\ (is_some(env.CARGO_LLVM_COV) /\ is_none(env.CARGO_LLVM_COV_TARGET_ONLY))
              => should_instr = Some(TRUE)

\* C9, amended: should_instrument returns false when CARGO_LLVM_COV is absent,
\* and true when CARGO_LLVM_COV is set, CARGO_LLVM_COV_TARGET_ONLY is absent
\* and CARGO_CRATE_NAME or CARGO_PKG_NAME is present.
C9_UnitTests ==
    is_some(should_instr) =>
        /\ is_none(env.CARGO_LLVM_COV) => should_instr = Some(FALSE)
        /\ (/\ is_some(env.CARGO_LLVM_COV)
            /\ is_none(env.CARGO_LLVM_COV_TARGET_ONLY)
            /\ (is_some(env.CARGO_CRATE_NAME) \/ is_some(env.CARGO_PKG_NAME)))
              => should_instr = Some(TRUE)

C9_Witness ==
    /\ should_instr = Some(TRUE)
    /\ is_none(env.CARGO_LLVM_COV_TARGET_ONLY)
    /\ is_some(env.TARGET)
    /\ is_none(env.CARGO_CRATE_NAME)
    /\ is_some(env.CARGO_PKG_NAME)

\* C10: the gate's result, the command line of the subprocess and the exit
\* code are those of the run in any environment that differs only in
\* CARGO_LLVM_COV_DEP_COVERAGE and CARGO_PRIMARY_PACKAGE (same command line,
\* same platform, same outcome of the subprocess).
C10_MarkerInsensitive ==
    \A d \in Opt({One}), p \in Opt({One}) :
        LET e == WithMarkers(d, p)
            gate == should_instrument(e)
            added == add_coverage_flags(e, original_args, unix)
        IN /\ is_some(should_instr) => should_instr[1] = gate
           /\ is_some(child_argv) =>
                 child_argv[1] =
                    <<argv[2]>> \o (IF gate THEN added.args ELSE original_args)
           /\ is_some(exit_code) =>
                 exit_code[1] =
                    (IF Len(argv) <= 1 THEN 1
                     ELSE IF gate /\ ~added.ok THEN 1
                     ELSE IF status = Some(0) THEN 0
                     ELSE 1)

C10_Witness ==
    /\ pc = "exited"
    /\ should_instr = Some(TRUE)
    /\ is_none(env.CARGO_LLVM_COV_DEP_COVERAGE)
    /\ is_none(env.CARGO_PRIMARY_PACKAGE)
    /\ env.CARGO_LLVM_COV_FLAGS = Some(<<65>>)
    /\ exit_code = Some(0)

====
